---- MODULE Spec2Model ----
(***************************************************************************)
(* Model of garbage_collector.cpp: class GC, a process-wide table          *)
(* _memory : address -> (size, is_array), fed by the tagged operator       *)
(* new / new[] overloads, emptied by the tagged operator delete /          *)
(* delete[] overloads, GC::remove and GC::clear_memory, and drained by     *)
(* ~GC.  The global heap (::operator new / ::operator delete) is modelled  *)
(* as the set of live addresses plus, per address, the number of           *)
(* deallocations since the address was last handed out (0, 1, or 2 for     *)
(* "more than once").                                                      *)
(***************************************************************************)
EXTENDS Integers, FiniteSets, Sequences, TLC

\* ---- bounds ----
NumAddrs == 2          \* distinct heap addresses
MaxGuards == 2         \* GC objects alive at the same time

Addrs == 1..NumAddrs
CharSize == 1          \* sizeof(char), the size NEW char asks for
Sizes == {0, CharSize} \* sizes asked for; the table only stores them
End == 0               \* _memory.end()

VARIABLES
    memory,   \* GC::_memory: function from the tracked addresses to pairs
    heap,     \* global heap: [live : set of addresses, frees : address -> count]
    pc,       \* "idle", "loop" (inside clear_memory's for loop), "crashed"
    it,       \* the range-for iterator of clear_memory (key it refers to, or End)
    drain,    \* bookkeeping of the current / most recent clear_memory call
    guards,   \* number of GC objects alive
    last,     \* the most recent call: its name (op) and its arguments
    registered, \* history: addresses a tagged allocation has ever returned
    released, \* history: addresses whose current lifetime the program ended
              \* with a tagged delete while they were tracked
    erased,   \* history: addresses whose entry a remove, a tagged delete or
              \* a drain was to erase, and that were not registered since
    plainFreed \* history: tracked addresses the program freed with a plain delete

hvars == <<erased, plainFreed>>

vars == <<memory, heap, pc, it, drain, guards, last, registered, released,
          erased, plainFreed>>

\* history of a tagged allocation that returns addr
note_register(addr) ==
    /\ erased' = erased \ {addr}
    /\ plainFreed' = plainFreed \ {addr}

\* history of a call that is to erase the entries of the addresses in S
note_erase(S) ==
    /\ erased' = erased \cup (S \cap DOMAIN memory)
    /\ plainFreed' = plainFreed \ S

\* what a tagged delete called by the program on p does to the history
note_release(p) ==
    IF p \in heap.live /\ p \in DOMAIN memory
    THEN released \cup {p} ELSE released \ {p}

\* ---- std::pair / std::map ----
make_pair(n, f) == [first |-> n, second |-> f]

EmptyMap == [k \in {} |-> make_pair(0, FALSE)]

\* std::map::erase(key): removes the entry if present
\* mutant of erase: an erase that leaves the record in the table
erase_keeps_record(m, p) == m

erase(m, p) == [k \in (DOMAIN m) \ {p} |-> m[k]]

\* mutant of assign: std::map::insert, which keeps the record of a key that
\* is already present
assign_keeps_existing(m, p, v) ==
    [k \in (DOMAIN m) \cup {p} |-> IF k \in DOMAIN m THEN m[k] ELSE v]

\* std::map::operator[](key) = value : inserts or overwrites
assign(m, p, v) == [k \in (DOMAIN m) \cup {p} |-> IF k = p THEN v ELSE m[k]]

\* std::map::operator[](key) read: the map afterwards; a key that is not
\* present is inserted with a value-initialised pair
index(m, p) == IF p \in DOMAIN m THEN m ELSE assign(m, p, make_pair(0, FALSE))

\* std::map::find(p) != end()
find(m, p) == IF p \in DOMAIN m THEN p ELSE End

\* std::map::begin(): the smallest key, or end() for the empty map
begin(m) ==
    IF DOMAIN m = {} THEN End
    ELSE CHOOSE k \in DOMAIN m : \A j \in DOMAIN m : k <= j

\* ++it for an iterator that refers to an element of m
successor(m, k) ==
    LET greater == {j \in DOMAIN m : j > k}
    IN  IF greater = {} THEN End
        ELSE CHOOSE j \in greater : \A i \in greater : j <= i

\* ---- the global heap ----
NoDrain == [start |-> {}, freed |-> [a \in Addrs |-> 0], erased |-> {},
            by |-> "none", prev |-> "none", arg |-> End]

\* deallocations are counted 0, 1, 2, where 2 stands for "more than once"
bump(n) == IF n < 2 THEN n + 1 ELSE n

\* ::operator new(size) / ::operator new[](size): the addresses it can return
global_new(h) == Addrs \ h.live

allocate(h, a) == [live |-> h.live \cup {a}, frees |-> [h.frees EXCEPT ![a] = 0]]

\* ::operator delete(p) / ::operator delete[](p): the possible outcomes.
\* Deleting live memory frees it.
\* Deleting memory that is not live is undefined: the process aborts, or the
\* call goes through as one more deallocation of p.
global_delete(h, p) ==
    IF p \in h.live
    THEN {[heap |-> [live |-> h.live \ {p},
                     frees |-> [h.frees EXCEPT ![p] = bump(@)]],
           abort |-> FALSE]}
    ELSE {[heap |-> h, abort |-> TRUE],
          [heap |-> [h EXCEPT !.frees[p] = bump(@)], abort |-> FALSE]}

\* the pointers the program holds: addresses an allocation has returned
obtained(p) == p \in heap.live \/ heap.frees[p] > 0

\* ---- GC queries ----
\* mutant of is_managed: the comparison with end() inverted
is_managed_inverted(p) == find(memory, p) = End

is_managed(p) == find(memory, p) /= End

get(p) == IF is_managed(p) THEN memory[p] ELSE make_pair(0, FALSE)

TypeOK ==
    /\ DOMAIN memory \subseteq Addrs
    /\ \A a \in DOMAIN memory : memory[a].first \in Sizes /\ memory[a].second \in BOOLEAN
    /\ heap.live \subseteq Addrs
    /\ \A a \in Addrs : heap.frees[a] \in 0..2
    /\ pc \in {"idle", "loop", "crashed"}
    /\ it \in Addrs \cup {End}
    /\ guards \in 0..MaxGuards
    /\ registered \subseteq Addrs
    /\ released \subseteq Addrs
    /\ erased \subseteq Addrs
    /\ plainFreed \subseteq Addrs

Init ==
    /\ memory = EmptyMap
    /\ heap = [live |-> {}, frees |-> [a \in Addrs |-> 0]]
    /\ pc = "idle"
    /\ it = End
    /\ drain = NoDrain
    /\ guards = 0
    /\ last = [op |-> "none"]
    /\ registered = {}
    /\ released = {}
    /\ erased = {}
    /\ plainFreed = {}

\* ---- tagged allocation ----
\* mutant of operator_new: records every scalar-form block as a non-array,
\* whatever is_array the caller passed
operator_new_ignores_flag(size, is_array) ==
    /\ pc = "idle"
    /\ \E addr \in global_new(heap) :
         /\ heap' = allocate(heap, addr)
         /\ memory' = assign(memory, addr, make_pair(size, FALSE))
         /\ last' = [op |-> "new", p |-> addr, n |-> size, arr |-> is_array,
                      was |-> addr \in DOMAIN memory]
         /\ registered' = registered \cup {addr}
         /\ released' = released \ {addr}
         /\ note_register(addr)
    /\ drain' = NoDrain
    /\ UNCHANGED <<pc, it, guards>>

\* void* operator new(std::size_t size, const GC::collect_t&, bool is_array)
operator_new(size, is_array) ==
    /\ pc = "idle"
    /\ \E addr \in global_new(heap) :
         /\ heap' = allocate(heap, addr)
         /\ memory' = assign(memory, addr, make_pair(size, is_array))
         /\ last' = [op |-> "new", p |-> addr, n |-> size, arr |-> is_array,
                      was |-> addr \in DOMAIN memory]
         /\ registered' = registered \cup {addr}
         /\ released' = released \ {addr}
         /\ note_register(addr)
    /\ drain' = NoDrain
    /\ UNCHANGED <<pc, it, guards>>

\* mutant of operator_new_array: registers the block as a non-array
operator_new_array_scalar_flag(size) ==
    /\ pc = "idle"
    /\ \E addr \in global_new(heap) :
         /\ heap' = allocate(heap, addr)
         /\ memory' = assign(memory, addr, make_pair(size, FALSE))
         /\ last' = [op |-> "new[]", p |-> addr, n |-> size, arr |-> TRUE,
                      was |-> addr \in DOMAIN memory]
         /\ registered' = registered \cup {addr}
         /\ released' = released \ {addr}
         /\ note_register(addr)
    /\ drain' = NoDrain
    /\ UNCHANGED <<pc, it, guards>>

\* void* operator new[](std::size_t size, const GC::collect_t&)
operator_new_array(size) ==
    /\ pc = "idle"
    /\ \E addr \in global_new(heap) :
         /\ heap' = allocate(heap, addr)
         /\ memory' = assign(memory, addr, make_pair(size, TRUE))
         /\ last' = [op |-> "new[]", p |-> addr, n |-> size, arr |-> TRUE,
                      was |-> addr \in DOMAIN memory]
         /\ registered' = registered \cup {addr}
         /\ released' = released \ {addr}
         /\ note_register(addr)
    /\ drain' = NoDrain
    /\ UNCHANGED <<pc, it, guards>>

\* ---- untagged allocation (main: int *tmp = new int; ... delete tmp;) ----
\* new T without the tag: memory from ::operator new, never registered
plain_new ==
    /\ pc = "idle"
    /\ \E addr \in global_new(heap) :
         /\ heap' = allocate(heap, addr)
         /\ last' = [op |-> "::new"]
         /\ released' = released \ {addr}
         /\ plainFreed' = plainFreed \ {addr}
    /\ drain' = NoDrain
    /\ UNCHANGED <<memory, pc, it, guards, registered, erased>>

\* delete p without the tag, on memory that is live: ::operator delete(p),
\* which never touches the table
plain_delete(p) ==
    /\ pc = "idle"
    /\ p \in heap.live
    /\ \E o \in global_delete(heap, p) : heap' = o.heap
    /\ last' = [op |-> "::delete"]
    /\ plainFreed' = IF p \in DOMAIN memory THEN plainFreed \cup {p} ELSE plainFreed
    /\ drain' = NoDrain
    /\ UNCHANGED <<memory, pc, it, guards, registered, released, erased>>

\* ---- tagged release ----
\* mutants of tagged_delete and tagged_delete_array: the entry is not erased
tagged_delete_keeps_entry(m, h, p) ==
    {[memory |-> m, heap |-> o.heap, abort |-> o.abort] :
        o \in global_delete(h, p)}

tagged_delete_array_keeps_entry(m, h, p) ==
    {[memory |-> m, heap |-> o.heap, abort |-> o.abort] :
        o \in global_delete(h, p)}

\* body of void operator delete(void *p, const GC::collect_t&): the table
\* and heap it can leave behind
tagged_delete(m, h, p) ==
    {[memory |-> erase(m, p), heap |-> o.heap, abort |-> o.abort] :
        o \in global_delete(h, p)}

\* body of void operator delete[](void *p, const GC::collect_t&)
tagged_delete_array(m, h, p) ==
    {[memory |-> erase(m, p), heap |-> o.heap, abort |-> o.abort] :
        o \in global_delete(h, p)}

\* operator delete(p, GC::collect_t{}) called by the program
operator_delete(p) ==
    /\ pc = "idle"
    /\ obtained(p)
    /\ \E o \in tagged_delete(memory, heap, p) :
         /\ memory' = o.memory
         /\ heap' = o.heap
         /\ pc' = IF o.abort THEN "crashed" ELSE "idle"
    /\ last' = [op |-> "delete", p |-> p]
    /\ released' = note_release(p)
    /\ note_erase({p})
    /\ drain' = NoDrain
    /\ UNCHANGED <<it, guards, registered>>

\* operator delete[](p, GC::collect_t{}) called by the program
operator_delete_array(p) ==
    /\ pc = "idle"
    /\ obtained(p)
    /\ \E o \in tagged_delete_array(memory, heap, p) :
         /\ memory' = o.memory
         /\ heap' = o.heap
         /\ pc' = IF o.abort THEN "crashed" ELSE "idle"
    /\ last' = [op |-> "delete[]", p |-> p]
    /\ released' = note_release(p)
    /\ note_erase({p})
    /\ drain' = NoDrain
    /\ UNCHANGED <<it, guards, registered>>

\* ---- GC::remove ----
\* mutant of remove: also hands p to ::operator delete
remove_and_free(p) ==
    /\ pc = "idle"
    /\ memory' = erase(memory, p)
    /\ \E o \in global_delete(heap, p) :
         /\ heap' = o.heap
         /\ pc' = IF o.abort THEN "crashed" ELSE "idle"
    /\ last' = [op |-> "remove", p |-> p, was |-> p \in DOMAIN memory]
    /\ note_erase({p})
    /\ drain' = NoDrain
    /\ UNCHANGED <<it, guards, registered, released>>

remove(p) ==
    /\ pc = "idle"
    /\ memory' = erase(memory, p)
    /\ last' = [op |-> "remove", p |-> p, was |-> p \in DOMAIN memory]
    /\ note_erase({p})
    /\ drain' = NoDrain
    /\ UNCHANGED <<heap, pc, it, guards, registered, released>>

\* ---- GC::display_memory: the rows it prints, in iteration order ----
RECURSIVE rows_from(_, _)
rows_from(m, k) ==
    IF k = End THEN <<>>
    ELSE <<<<k, m[k].first, m[k].second>>>> \o rows_from(m, successor(m, k))

display_memory(m) == rows_from(m, begin(m))

\* ---- GC::clear_memory ----
\* ++it of the range-for.  While it refers to an element of the map this is
\* the next key.  When the element it refers to was erased by the loop body
\* the iterator is invalid and incrementing it is undefined: it may arrive
\* at any element still in the map, at a node erased earlier in this call,
\* or at end(), or the process crashes.
increment(m, stale, k) ==
    IF k \in DOMAIN m
    THEN {[it |-> successor(m, k), abort |-> FALSE]}
    ELSE {[it |-> j, abort |-> FALSE] : j \in (DOMAIN m) \cup stale \cup {End}}
         \cup {[it |-> k, abort |-> TRUE]}

\* elem.second.second as the loop reads it: the stored flag, or whatever a
\* node that was already freed holds
read_flag(m, k) == IF k \in DOMAIN m THEN {m[k].second} ELSE BOOLEAN

\* the call that came right before a clear_memory, as the bookkeeping keeps
\* it: another drain, a remove of a tracked address, or anything else
before(l) ==
    IF l.op \in {"clear_memory", "~GC"} THEN l.op
    ELSE IF l.op = "remove" /\ l.was THEN "remove"
    ELSE "other"

\* entry of clear_memory: for (auto && elem : _memory) starts at begin()
clear_begin(by) ==
    /\ pc = "idle"
    /\ pc' = "loop"
    /\ it' = begin(memory)
    /\ drain' = [start |-> DOMAIN memory, freed |-> [a \in Addrs |-> 0],
                 erased |-> {}, by |-> by, prev |-> before(last),
                 arg |-> IF before(last) = "remove" THEN last.p ELSE End]
    /\ last' = [op |-> "enter", by |-> by]
    /\ UNCHANGED <<memory, heap, guards, registered, released, hvars>>

\* GC::clear_memory() called by the program
clear_memory == clear_begin("clear_memory")

\* GC::~GC(): prints, then calls clear_memory()
GC_dtor ==
    /\ guards > 0
    /\ clear_begin("~GC")

\* one iteration of the loop of clear_memory, with the ++it that follows it
clear_step ==
    /\ pc = "loop"
    /\ it /= End
    /\ \E flag \in read_flag(memory, it) :
       \E o \in (IF flag THEN tagged_delete(memory, heap, it)
                 ELSE tagged_delete_array(memory, heap, it)) :
         /\ memory' = o.memory
         /\ heap' = o.heap
         /\ last' = [op |-> IF flag THEN "delete" ELSE "delete[]", p |-> it]
         /\ drain' = [drain EXCEPT
                        !.freed[it] = IF o.abort THEN @ ELSE bump(@),
                        !.erased = IF it \in DOMAIN memory /\ it \notin DOMAIN o.memory
                                   THEN @ \cup {it} ELSE @]
         /\ IF o.abort
            THEN pc' = "crashed" /\ it' = it
            ELSE \E nx \in increment(o.memory, drain'.erased, it) :
                   /\ it' = nx.it
                   /\ pc' = IF nx.abort THEN "crashed" ELSE "loop"
    /\ note_erase({it})
    /\ UNCHANGED <<guards, registered, released>>

\* the loop is over: _memory.clear(); for ~GC, display_memory() follows and
\* the GC object is gone
clear_end ==
    /\ pc = "loop"
    /\ it = End
    /\ memory' = EmptyMap
    /\ pc' = "idle"
    /\ last' = [op |-> drain.by, shown |-> display_memory(memory')]
    /\ guards' = IF drain.by = "~GC" THEN guards - 1 ELSE guards
    /\ note_erase(DOMAIN memory)
    /\ UNCHANGED <<heap, it, drain, registered, released>>

\* ---- the queries, called by the program ----
\* GC::is_managed(p): find does not change the map
call_is_managed(p) ==
    /\ pc = "idle"
    /\ last' = [op |-> "is_managed", p |-> p, ret |-> is_managed(p)]
    /\ drain' = NoDrain
    /\ UNCHANGED <<memory, heap, pc, it, guards, registered, released, hvars>>

\* mutant of call_get: return _memory[p] without the is_managed test
call_get_unguarded(p) ==
    /\ pc = "idle"
    /\ memory' = index(memory, p)
    /\ last' = [op |-> "get", p |-> p, ret |-> memory'[p]]
    /\ drain' = NoDrain
    /\ UNCHANGED <<heap, pc, it, guards, registered, released, hvars>>

\* GC::get(p): _memory[p] is only evaluated when p is managed
call_get(p) ==
    /\ pc = "idle"
    /\ memory' = IF is_managed(p) THEN index(memory, p) ELSE memory
    /\ last' = [op |-> "get", p |-> p, ret |-> get(p)]
    /\ drain' = NoDrain
    /\ UNCHANGED <<heap, pc, it, guards, registered, released, hvars>>

\* GC::display_memory() called by the program: reads the map and prints
call_display_memory ==
    /\ pc = "idle"
    /\ last' = [op |-> "display_memory", shown |-> display_memory(memory)]
    /\ drain' = NoDrain
    /\ UNCHANGED <<memory, heap, pc, it, guards, registered, released, hvars>>

\* ---- GC gc; ----
GC_ctor ==
    /\ pc = "idle"
    /\ guards < MaxGuards
    /\ guards' = guards + 1
    /\ last' = [op |-> "GC"]
    /\ drain' = NoDrain
    /\ UNCHANGED <<memory, heap, pc, it, registered, released, hvars>>

Next ==
    \/ \E n \in Sizes, f \in BOOLEAN : operator_new(n, f)
    \/ \E n \in Sizes : operator_new_array(n)
    \/ plain_new
    \/ \E p \in Addrs : plain_delete(p)
    \/ \E p \in Addrs : operator_delete(p)
    \/ \E p \in Addrs : operator_delete_array(p)
    \/ \E p \in Addrs : remove(p)
    \/ clear_memory
    \/ GC_dtor
    \/ clear_step
    \/ clear_end
    \/ GC_ctor
    \/ \E p \in Addrs : call_is_managed(p)
    \/ \E p \in Addrs : call_get(p)
    \/ call_display_memory

Spec == Init /\ [][Next]_vars

\* ======================= properties =======================

Absent == make_pair(0, FALSE)   \* what get returns for an untracked address

Finished == pc = "idle" /\ last.op \in {"clear_memory", "~GC"}

\* C1: a finished clear_memory has deallocated every address that was a key
\* when it started exactly once and no other address, and has left the table
\* empty; a clear_memory that runs right after another one deallocates nothing.
C1_DrainReleasesEachTrackedOnce ==
    Finished =>
        /\ \A a \in Addrs : drain.freed[a] = IF a \in drain.start THEN 1 ELSE 0
        /\ memory = EmptyMap
        /\ (drain.prev \in {"clear_memory", "~GC"} =>
                \A a \in Addrs : drain.freed[a] = 0)

\* C2: for every entry clear_memory drains, the release form follows the
\* entry's flag: operator delete[] when is_array is true, operator delete
\* when it is false.
C2_ReleaseFormFollowsFlag ==
    [][(pc = "loop" /\ it \in DOMAIN memory) =>
          last'.op = IF memory[it].second THEN "delete[]" ELSE "delete"]_vars

\* C3: once the program has released a tracked address through a tagged
\* delete, the address is not a key of the table and its memory has been
\* deallocated exactly once, whatever drains and guard destructions follow
\* (until the address is allocated again or the program deallocates it again).
C3_ReleasedExactlyOnce ==
    \A a \in released :
        /\ ~is_managed(a)
        /\ a \notin heap.live
        /\ heap.frees[a] = 1

C3_Witness ==
    /\ Finished
    /\ last.op = "~GC"
    /\ drain.start /= {}
    /\ released /= {}

\* C4: GC::remove(a) only detaches a: afterwards a is not managed, the heap
\* is as it was (remove deallocates nothing), and every other address is
\* managed or not, with the same record, as before the call.
C4_RemoveOnlyDetaches ==
    [][\A a \in Addrs :
          (last'.op = "remove" /\ last'.p = a) =>
              /\ (~is_managed(a))'
              /\ heap' = heap
              /\ \A b \in Addrs \ {a} :
                    /\ is_managed(b)' = is_managed(b)
                    /\ get(b)' = get(b)]_vars

C4_Witness ==
    /\ last.op = "remove"
    /\ last.was
    /\ last.p \in heap.live
    /\ ~is_managed(last.p)
    /\ \E b \in Addrs \ {last.p} : is_managed(b)

\* C5: a tagged allocation that returns a for size n and array flag arr makes
\* a managed with get(a) = (n, arr), and the record of a managed address
\* only changes or disappears in a step that removes a, releases a, drains
\* the table or registers a again.
C5_RegisteredRecordKept ==
    [][\A a \in Addrs :
          /\ (last'.op \in {"new", "new[]"} /\ last'.p = a) =>
                 is_managed(a)' /\ get(a)' = make_pair(last'.n, last'.arr)
          /\ (is_managed(a) /\ (~is_managed(a)' \/ get(a)' /= get(a))) =>
                 \/ last'.op \in {"remove", "delete", "delete[]", "new", "new[]"}
                      /\ last'.p = a
                 \/ last'.op \in {"clear_memory", "~GC"}]_vars

C5_Witness ==
    /\ last.op = "new[]"
    /\ ~last.was
    /\ last.n = CharSize
    /\ is_managed(last.p)
    /\ get(last.p) = make_pair(CharSize, TRUE)
    /\ \E b \in Addrs \ {last.p} : is_managed(b) /\ get(b) = make_pair(0, FALSE)

\* C6: a tagged release or GC::remove of an address that is not a key of the
\* table is a no-op: the table is unchanged and nothing is deallocated.
C6_UntrackedIsNoOp ==
    [][\A a \in Addrs :
          (pc = "idle" /\ ~is_managed(a)
             /\ last'.op \in {"delete", "delete[]", "remove"} /\ last'.p = a) =>
              memory' = memory /\ heap' = heap /\ pc' = "idle"]_vars

\* C7: a clear_memory that runs after the program released a through a tagged
\* delete (a not registered again since) does not deallocate a: a is not among
\* the entries it starts from, its loop never stands on a, it deallocates a
\* zero times, and the number of deallocations of a stays 1.
C7_DrainSkipsReleased ==
    drain.by /= "none" =>
        \A a \in released :
            /\ a \notin drain.start
            /\ it /= a
            /\ drain.freed[a] = 0
            /\ heap.frees[a] = 1

C7_Witness ==
    /\ Finished
    /\ last.op = "clear_memory"
    /\ released /= {}
    /\ \E b \in drain.start : drain.freed[b] = 1

\* C8: get(a) is the absent result if and only if a is not a key of the
\* table, so the result of get for a tracked address always differs from the
\* result for an untracked one.
C8_GetTellsManaged ==
    \A a \in Addrs : (get(a) = Absent) <=> ~is_managed(a)

\* C9: an address that no tagged allocation has ever returned is not managed
\* and get of it is the absent result, whatever happened to other addresses.
C9_NeverRegisteredIsAbsent ==
    \A a \in Addrs \ registered : ~is_managed(a) /\ get(a) = Absent

C9_Witness ==
    /\ \E a \in Addrs \ registered : a \in heap.live
    /\ \E b \in registered : is_managed(b)
    /\ last.op \in {"::new", "remove", "delete"}

\* C10: a tagged allocation that returns an address that is already a key
\* overwrites its record: get(a) is the new (n, arr), the table has the same
\* keys as before (one entry for a), and all other records are unchanged.
C10_LastWriteWins ==
    [][\A a \in DOMAIN memory :
          (last'.op \in {"new", "new[]"} /\ last'.p = a) =>
              /\ get(a)' = make_pair(last'.n, last'.arr)
              /\ DOMAIN memory' = DOMAIN memory
              /\ \A b \in (DOMAIN memory) \ {a} : memory'[b] = memory[b]]_vars

C10_Witness ==
    /\ last.op \in {"new", "new[]"}
    /\ last.was
    /\ get(last.p) = make_pair(last.n, last.arr)
    /\ Cardinality(DOMAIN memory) = 2

\* C11: once the record of a has been erased by remove, a tagged release or
\* a drain, and until a is registered again, a is not managed, get(a) is the
\* absent result, and every call of is_managed(a) and get(a) the program
\* makes returns false and the absent result.
C11_ErasedReportsAbsent ==
    /\ \A a \in erased : ~is_managed(a) /\ get(a) = Absent
    /\ (last.op = "is_managed" /\ last.p \in erased) => (last.ret = FALSE)
    /\ (last.op = "get" /\ last.p \in erased) => (last.ret = Absent)

C11_Witness ==
    /\ last.op = "get"
    /\ last.p \in released
    /\ last.p \in erased
    /\ last.ret = Absent
    /\ \E b \in Addrs \ {last.p} : is_managed(b)

\* C12: when ~GC has returned, every address that was a key of the table
\* when the destruction began has been deallocated, and the table that the
\* destructor's display_memory reported was empty.
C12_DestructorDrainsBeforeReport ==
    (pc = "idle" /\ last.op = "~GC") =>
        /\ \A a \in drain.start : a \notin heap.live
        /\ last.shown = <<>>

\* C13: in a run that registers several addresses, removes one of them (A)
\* and then drains, A is still unmanaged and the drain has not deallocated
\* it, every other address that was tracked is deallocated exactly once by
\* the drain, and the table ends empty.
C13_RemoveThenDrain ==
    (Finished /\ drain.prev = "remove" /\ drain.start /= {}) =>
        /\ ~is_managed(drain.arg)
        /\ drain.arg \notin drain.start
        /\ drain.freed[drain.arg] = 0
        /\ \A b \in drain.start : drain.freed[b] = 1
        /\ memory = EmptyMap

\* C14 (as stated): in every reachable state every key of the table was
\* returned by a tagged allocation, its memory is still allocated, and it has
\* been neither released nor removed since its most recent registration.
C14_KeysAreLiveRegistrations ==
    \A a \in DOMAIN memory :
        /\ a \in registered
        /\ a \in heap.live
        /\ a \notin erased
        /\ a \notin released

\* C14 (amended): in every reachable state every key of the table was
\* returned by a tagged allocation and has been neither released through a
\* tagged delete nor removed nor drained since its most recent registration;
\* its memory is still allocated unless the program deallocated it with an
\* untagged delete, which the table does not see.
C14_KeysAreRegistrationsNotErased ==
    \A a \in DOMAIN memory :
        /\ a \in registered
        /\ a \notin erased
        /\ a \notin released
        /\ (a \in heap.live \/ a \in plainFreed)

C14_Witness ==
    /\ \E a \in DOMAIN memory : a \in plainFreed /\ a \notin heap.live
    /\ \E b \in DOMAIN memory : b \in heap.live /\ b \notin plainFreed
    /\ last.op = "is_managed"
    /\ last.ret = TRUE
    /\ last.p \notin heap.live

\* C15: while the loop of clear_memory runs, no step of it changes the
\* table: no entry is erased while the iteration stands on it or has yet to
\* visit it; the table only changes in the clear() after the loop.
C15_TableFixedDuringLoop ==
    [][(pc = "loop" /\ it /= End) => memory' = memory]_vars

\* C16: with more than one GC guard alive, the destruction of one of them
\* deallocates every address that was a key of the table at that moment, and
\* a destruction of another guard right after it deallocates nothing.
C16_OneDrainPointForAllGuards ==
    (pc = "idle" /\ last.op = "~GC" /\ (guards >= 1 \/ drain.prev = "~GC")) =>
        /\ \A a \in drain.start : drain.freed[a] /= 0
        /\ (drain.prev = "~GC" => \A a \in Addrs : drain.freed[a] = 0)

\* C17 (as stated): the is_array flag a tagged allocation records is TRUE
\* exactly when the allocation is the array form operator new[] and FALSE
\* exactly when it is the scalar form operator new.
C17_FlagMatchesForm ==
    [][\A a \in Addrs :
          /\ (last'.op = "new[]" /\ last'.p = a) => (memory'[a].second = TRUE)
          /\ (last'.op = "new" /\ last'.p = a) => (memory'[a].second = FALSE)]_vars

\* C17 (amended): the is_array flag a tagged allocation records is TRUE when
\* the allocation is the array form operator new[], and is the is_array
\* argument of the call (false unless the caller passes true) when it is the
\* scalar form operator new; the flag of an entry then stays as recorded
\* until the address is registered again.
C17_FlagIsArgumentOrArray ==
    [][\A a \in Addrs :
          /\ (last'.op = "new[]" /\ last'.p = a) => (memory'[a].second = TRUE)
          /\ (last'.op = "new" /\ last'.p = a) =>
                 (memory'[a].second = last'.arr)
          /\ (a \in DOMAIN memory /\ a \in DOMAIN memory'
                /\ memory'[a].second /= memory[a].second) =>
                 (last'.op \in {"new", "new[]"} /\ last'.p = a)]_vars

C17_Witness ==
    /\ last.op = "new"
    /\ last.arr = TRUE
    /\ is_managed(last.p)
    /\ memory[last.p].second = TRUE
    /\ \E b \in DOMAIN memory : memory[b].second = FALSE

\* C18: is_managed, get, display_memory and the construction of a GC object
\* leave the table as it was; get of an address that is not tracked returns
\* the absent result and inserts no entry for it.
C18_QueriesLeaveTable ==
    [][(last'.op \in {"is_managed", "get", "display_memory", "GC"}) =>
          /\ memory' = memory
          /\ \A a \in Addrs :
                (last'.op = "get" /\ last'.p = a /\ ~is_managed(a)) =>
                    (~is_managed(a))' /\ last'.ret = Absent]_vars

C18_Witness ==
    /\ last.op = "get"
    /\ ~is_managed(last.p)
    /\ last.ret = Absent
    /\ last.p \in heap.live
    /\ memory /= EmptyMap
====
